---- MODULE Spec2Model ----
(***************************************************************************)
(* AsyncResultDO (src/unnamed/part_011): the per-key Durable Object that   *)
(* implements store -> poll -> ack -> auto-cleanup.                        *)
(*                                                                         *)
(* Time is counted in hours: Date.now() is `now`, 24*60*60*1000 ms is 24   *)
(* and 60*60*1000 ms is 1.  A handler runs at one instant.  The host calls *)
(* alarm() at the scheduled time: the clock does not move a whole hour     *)
(* past a pending alarm before alarm() has run.                            *)
(***************************************************************************)
EXTENDS Integers, FiniteSets, Sequences, TLC

\* ------------------------------------------------------------ bounds
\* The clock stops here (hours).
MaxTime == 26
\* The invocations of one instance that can be in flight together.
MaxCalls == 2

\* ------------------------------------------------------------ constants
\* store: setAlarm(Date.now() + 24 * 60 * 60 * 1000)
UNCLAIMED_TTL == 24
\* acknowledge: setAlarm(Date.now() + 60 * 60 * 1000)
TOMBSTONE_TTL == 1

\* One Durable Object instance per result key.
Keys == {"job-1", "job-2"}
\* The keys the specification Spec sends requests to.
SpecKeys == {"job-1"}

\* What request.json() can yield; JSON null is a payload like any other.
JsonNull == "null"
Payloads == {"X", JsonNull}

\* What can go wrong in one run of a handler: the body is not JSON, or one
\* storage call rejects.  "none": every call of the handler succeeds.  Spec
\* draws from NoFault.
NoFault == {"none"}
Faults == {"none", "json", "put", "get", "delete", "setAlarm", "deleteAll"}

\* storage.get of a key that is not stored
Undefined == "undefined"
NoAlarm == -1
NoTime == -1

VARIABLES
    now,        \* the clock, in hours
    storage,    \* storage[k]: the instance's key-value storage, a function
                \* from the stored keys among status, result, storedAt
    scheduled,  \* scheduled[k]: the time of the instance's alarm, or NoAlarm
    resp,       \* resp[k]: outcome of the last fetch on k
    lastOp,     \* lastOp[k]: the last event on k: its verb, time and payload
    hist,       \* hist[k]: what has happened on k so far (history only)
    calls,      \* calls[k][i]: the i-th invocation in flight on k, with the
                \* await it is suspended at (SpecSteps; idle elsewhere)
    batch,      \* the queue consumer: the batch handed to handleQueue, the
                \* position of its loop and what was done to each message
    ab,         \* A/B testing: the experiments, variants and assignments
                \* tables and the calls of getOrAssignVariant in flight
    limiter,    \* the rate limiter: the rate_limits rows of one key and the
                \* requests in flight through rateLimit
    sub,        \* the subscription check: the stored user, the clock and the
                \* request passing through checkSubscriptionStatus
    posts       \* the posts table and the outcome of the last service call

\* The state of the result actor, and the state of the rest of the application.
actorVars == <<now, storage, scheduled, resp, lastOp, hist, calls>>
appVars == <<batch, ab, limiter, sub, posts>>
vars == <<now, storage, scheduled, resp, lastOp, hist, calls,
          batch, ab, limiter, sub, posts>>

\* ------------------------------------------------------------ storage
EmptyStorage == [f \in {} |-> Undefined]

\* DurableObjectStorage.get(key): undefined when the key is not stored
get(s, key) == IF key \in DOMAIN s THEN s[key] ELSE Undefined

\* DurableObjectStorage.put(entries): writes all the entries at once
put(s, entries) ==
    [f \in DOMAIN s \cup DOMAIN entries |->
        IF f \in DOMAIN entries THEN entries[f] ELSE s[f]]

\* DurableObjectStorage.delete(keys)
delete(s, keys) == [f \in DOMAIN s \ keys |-> s[f]]

\* new Date().toISOString(): the instant as an ISO 8601 string
toISOString(t) == [iso |-> t]
\* Date.parse of such a string
parseISO(str) == str.iso

\* ------------------------------------------------------------ responses
\* new Response(text, { status })
TextResponse(text, status) == [status |-> status, body |-> [text |-> text]]
\* Response.json(obj, { status }); JSON.stringify leaves out undefined members
JsonResponse(obj, status) == [status |-> status, body |-> [json |-> obj]]
\* the promise returned by fetch rejects
Rejected == [status |-> 0, body |-> [text |-> "rejected"]]
NoResponse == [status |-> 0, body |-> [text |-> "none"]]

\* ------------------------------------------------------------ handlers
\* What a handler leaves behind: the storage, the alarm and the outcome.
Outcome(s, al, r) == [storage |-> s, scheduled |-> al, resp |-> r]

\* store with a bug: the payload is not part of the write
store_keepsOldResult(s, al, t, data, fault) ==
    IF fault \in {"json", "put"}
    THEN Outcome(s, al, Rejected)
    ELSE Outcome(put(s, [status |-> "ready", storedAt |-> toISOString(t)]),
                 IF fault = "setAlarm" THEN al ELSE t + UNCLAIMED_TTL,
                 TextResponse("stored", 201))

\* store with a bug: the alarm is set only when none is scheduled yet
store_keepsOldAlarm(s, al, t, data, fault) ==
    IF fault \in {"json", "put"}
    THEN Outcome(s, al, Rejected)
    ELSE Outcome(put(s, [result |-> data, status |-> "ready",
                         storedAt |-> toISOString(t)]),
                 IF fault = "setAlarm" \/ al # NoAlarm THEN al ELSE t + UNCLAIMED_TTL,
                 TextResponse("stored", 201))

\* store with a bug: no alarm is set
store_noAlarm(s, al, t, data, fault) ==
    IF fault \in {"json", "put"}
    THEN Outcome(s, al, Rejected)
    ELSE Outcome(put(s, [result |-> data, status |-> "ready",
                         storedAt |-> toISOString(t)]),
                 al,
                 TextResponse("stored", 201))

\* store with a bug: a record that is ready keeps its payload and storedAt
store_firstWins(s, al, t, data, fault) ==
    IF fault \in {"json", "put"}
    THEN Outcome(s, al, Rejected)
    ELSE Outcome(IF get(s, "status") = "ready"
                 THEN s
                 ELSE put(s, [result |-> data, status |-> "ready",
                              storedAt |-> toISOString(t)]),
                 IF fault = "setAlarm" THEN al ELSE t + UNCLAIMED_TTL,
                 TextResponse("stored", 201))

\* store(request), run at time t with body `data`
store(s, al, t, data, fault) ==
    IF fault \in {"json", "put"}
    THEN Outcome(s, al, Rejected)
    ELSE Outcome(put(s, [result |-> data, status |-> "ready",
                         storedAt |-> toISOString(t)]),
                 IF fault = "setAlarm" THEN al ELSE t + UNCLAIMED_TTL,
                 TextResponse("stored", 201))

\* retrieve with a bug: the test for "ready" comes first
retrieve_pendingFirst(s, al, fault) ==
    IF fault = "get"
    THEN Outcome(s, al, Rejected)
    ELSE LET status == get(s, "status") IN
         IF status # "ready"
         THEN Outcome(s, al, JsonResponse([status |-> "pending"], 202))
         ELSE Outcome(s, al,
                  JsonResponse(
                      [f \in {"status"} \cup ({"result", "storedAt"} \cap DOMAIN s) |->
                          IF f = "status" THEN "ready" ELSE s[f]],
                      200))

\* retrieve with a bug: a ready result is handed out once and then removed
retrieve_consumes(s, al, fault) ==
    IF fault = "get"
    THEN Outcome(s, al, Rejected)
    ELSE LET status == get(s, "status") IN
         IF status = "deleted"
         THEN Outcome(s, al, JsonResponse([message |-> "Result deleted"], 404))
         ELSE IF status # "ready"
         THEN Outcome(s, al, JsonResponse([status |-> "pending"], 202))
         ELSE Outcome(delete(s, {"result"}), al,
                  JsonResponse(
                      [f \in {"status"} \cup ({"result", "storedAt"} \cap DOMAIN s) |->
                          IF f = "status" THEN "ready" ELSE s[f]],
                      200))

\* retrieve()
retrieve(s, al, fault) ==
    IF fault = "get"
    THEN Outcome(s, al, Rejected)
    ELSE LET status == get(s, "status") IN
         IF status = "deleted"
         THEN Outcome(s, al, JsonResponse([message |-> "Result deleted"], 404))
         ELSE IF status # "ready"
         THEN Outcome(s, al, JsonResponse([status |-> "pending"], 202))
         ELSE Outcome(s, al,
                  JsonResponse(
                      [f \in {"status"} \cup ({"result", "storedAt"} \cap DOMAIN s) |->
                          IF f = "status" THEN "ready" ELSE s[f]],
                      200))

\* acknowledge with a bug: the status is not written
acknowledge_keepsStatus(s, al, t, fault) ==
    IF fault \in {"put", "delete"}
    THEN Outcome(s, al, Rejected)
    ELSE Outcome(delete(s, {"result", "storedAt"}),
                 IF fault = "setAlarm" THEN al ELSE t + TOMBSTONE_TTL,
                 TextResponse("deleted", 200))

\* acknowledge with a bug: result and storedAt are not deleted
acknowledge_keepsPayload(s, al, t, fault) ==
    IF fault \in {"put", "delete"}
    THEN Outcome(s, al, Rejected)
    ELSE Outcome(put(s, [status |-> "deleted"]),
                 IF fault = "setAlarm" THEN al ELSE t + TOMBSTONE_TTL,
                 TextResponse("deleted", 200))

\* acknowledge with a bug: no alarm is set
acknowledge_noAlarm(s, al, t, fault) ==
    IF fault \in {"put", "delete"}
    THEN Outcome(s, al, Rejected)
    ELSE Outcome(delete(put(s, [status |-> "deleted"]), {"result", "storedAt"}),
                 al,
                 TextResponse("deleted", 200))

\* acknowledge changed to answer 404 when the record is already deleted
acknowledge_onceOnly(s, al, t, fault) ==
    IF fault \in {"put", "delete"}
    THEN Outcome(s, al, Rejected)
    ELSE IF get(s, "status") = "deleted"
    THEN Outcome(s, al, JsonResponse([message |-> "Result deleted"], 404))
    ELSE Outcome(delete(put(s, [status |-> "deleted"]), {"result", "storedAt"}),
                 IF fault = "setAlarm" THEN al ELSE t + TOMBSTONE_TTL,
                 TextResponse("deleted", 200))

\* acknowledge changed to refuse a record that holds no status
acknowledge_needsRecord(s, al, t, fault) ==
    IF fault \in {"put", "delete"}
    THEN Outcome(s, al, Rejected)
    ELSE IF get(s, "status") = Undefined
    THEN Outcome(s, al, JsonResponse([message |-> "Not found"], 404))
    ELSE Outcome(delete(put(s, [status |-> "deleted"]), {"result", "storedAt"}),
                 IF fault = "setAlarm" THEN al ELSE t + TOMBSTONE_TTL,
                 TextResponse("deleted", 200))

\* acknowledge(), run at time t
acknowledge(s, al, t, fault) ==
    IF fault = "put"
    THEN Outcome(s, al, Rejected)
    ELSE LET marked == put(s, [status |-> "deleted"]) IN
         IF fault = "delete"
         THEN Outcome(marked, al, Rejected)
         ELSE Outcome(delete(marked, {"result", "storedAt"}),
                      IF fault = "setAlarm" THEN al ELSE t + TOMBSTONE_TTL,
                      TextResponse("deleted", 200))

\* fetch with a bug: the default case falls into the DELETE case
fetch_defaultDeletes(s, al, t, method, data, fault) ==
    CASE method = "PUT" -> store(s, al, t, data, fault)
      [] method = "GET" -> retrieve(s, al, fault)
      [] OTHER -> acknowledge(s, al, t, fault)

\* fetch(request): the switch on request.method
Methods == {"PUT", "GET", "DELETE", "POST"}
fetch(s, al, t, method, data, fault) ==
    CASE method = "PUT" -> store(s, al, t, data, fault)
      [] method = "GET" -> retrieve(s, al, fault)
      [] method = "DELETE" -> acknowledge(s, al, t, fault)
      [] OTHER -> Outcome(s, al, TextResponse("Method not allowed", 405))

\* alarm with a bug: only the payload is deleted, the status stays
alarm_keepsStatus(s, al, fault) ==
    IF fault = "deleteAll"
    THEN Outcome(s, al, NoResponse)
    ELSE Outcome(delete(s, {"result", "storedAt"}), NoAlarm, NoResponse)

\* alarm(): storage.deleteAll(); the alarm that fired is no longer scheduled.
\* When deleteAll rejects the host keeps the alarm and runs it again.
alarm(s, al, fault) ==
    IF fault = "deleteAll"
    THEN Outcome(s, al, NoResponse)
    ELSE Outcome(EmptyStorage, NoAlarm, NoResponse)

\* ------------------------------------------------------------ the record
\* The record's status as the specification names it.
Status(s) ==
    CASE get(s, "status") = "ready" -> "ready"
      [] get(s, "status") = "deleted" -> "deleted"
      [] OTHER -> "absent"

\* ------------------------------------------------------------ history
\* everStored: a store has been answered 201.
\* tomb: "acked" since an acknowledge of a ready record and "restored" once a
\*   store has followed it; "ghost" since an acknowledge of an absent record,
\*   until a store; "none" again after the purge.
\* lastStoreAt: the time of the latest store, while no acknowledge has followed.
\* openStoreAt: the time of the earliest store that no acknowledge followed
\*   within UNCLAIMED_TTL.
\* lastAckAt: the time of the latest acknowledge, while no store has followed.
\* openAckAt: the time of the earliest acknowledge that no store followed
\*   within TOMBSTONE_TTL.
\* Each of the four times becomes Elapsed once its window lies in the past.
Elapsed == -2

NoHist ==
    [everStored |-> FALSE, tomb |-> "none",
     lastStoreAt |-> NoTime, openStoreAt |-> NoTime,
     lastAckAt |-> NoTime, openAckAt |-> NoTime]

\* a store answered 201 at time t
HistStore(h, t) ==
    [h EXCEPT !.everStored = TRUE,
              !.tomb = IF @ \in {"acked", "restored"} THEN "restored" ELSE "none",
              !.lastStoreAt = t,
              !.openStoreAt = IF @ = NoTime THEN t ELSE @,
              !.lastAckAt = NoTime,
              !.openAckAt = IF @ = Elapsed THEN Elapsed ELSE NoTime]

\* an acknowledge answered 200 at time t, on a record whose status was st
HistAck(h, t, st) ==
    [h EXCEPT !.tomb = CASE st = "ready" -> "acked" [] st = "absent" -> "ghost" [] OTHER -> @,
              !.lastStoreAt = NoTime,
              !.openStoreAt = IF @ = Elapsed THEN Elapsed ELSE NoTime,
              !.lastAckAt = t,
              !.openAckAt = IF @ = NoTime THEN t ELSE @]

\* the alarm purged the record
HistPurge(h) == [h EXCEPT !.tomb = "none"]

\* the clock reaches t
Window(at, ttl, t) == IF at >= 0 /\ t > at + ttl THEN Elapsed ELSE at
HistTick(h, t) ==
    [h EXCEPT !.lastStoreAt = Window(@, UNCLAIMED_TTL, t),
              !.openStoreAt = Window(@, UNCLAIMED_TTL, t),
              !.lastAckAt = Window(@, TOMBSTONE_TTL, t),
              !.openAckAt = Window(@, TOMBSTONE_TTL, t)]

\* ------------------------------------------------------------ actions
NoOp ==
    [verb |-> "NONE", prev |-> "NONE", fresh |-> FALSE, data |-> "-",
     fault |-> "none", log |-> {}]

\* What the handling of an event writes to the console.  store, retrieve and
\* acknowledge write nothing, their catch blocks are empty; the console.error
\* of fetch is in a catch that no rejection of a handler reaches, the
\* handler's promise being returned without await; alarm writes one line.
console(verb, fault) ==
    IF verb = "ALARM" THEN {"[AsyncResultDO] Alarm: cleaning up"} ELSE {}

\* The event `verb` on a key whose last event was `op`.
NextOp(op, verb, data, fault) ==
    [verb |-> verb, prev |-> op.verb, fresh |-> TRUE, data |-> data,
     fault |-> fault, log |-> console(verb, fault)]

\* No invocation: the slot is free.
NoSnap == [storage |-> EmptyStorage, scheduled |-> NoAlarm, now |-> NoTime]
Idle ==
    [method |-> "NONE", pc |-> 0, data |-> "-", result |-> Undefined,
     started |-> FALSE, snap |-> NoSnap]
Slots == 1..MaxCalls

\* Nothing has been handed to the rest of the application yet.
NoBatch == [messages |-> << >>, i |-> 1, settled |-> << >>]
QueueIdle == batch = NoBatch
ABIdle == ab = << >>
LimiterIdle == limiter = << >>
SubIdle == sub = << >>
PostsIdle == posts = << >>

InitActor ==
    /\ calls = [k \in Keys |-> [i \in Slots |-> Idle]]
    /\ now = 0
    /\ storage = [k \in Keys |-> EmptyStorage]
    /\ scheduled = [k \in Keys |-> NoAlarm]
    /\ resp = [k \in Keys |-> NoResponse]
    /\ lastOp = [k \in Keys |-> NoOp]
    /\ hist = [k \in Keys |-> NoHist]

Init ==
    /\ InitActor
    /\ QueueIdle /\ ABIdle /\ LimiterIdle /\ SubIdle /\ PostsIdle

\* Request with a bug: the instances write to one storage they all share
Request_sharedStorage(k, method, data, fault) ==
    LET out == fetch(storage[k], scheduled[k], now, method, data, fault) IN
    /\ storage' = [j \in Keys |-> out.storage]
    /\ scheduled' = [scheduled EXCEPT ![k] = out.scheduled]
    /\ resp' = [resp EXCEPT ![k] = out.resp]
    /\ lastOp' = [lastOp EXCEPT ![k] =
           NextOp(@, method, IF method = "PUT" THEN data ELSE "-", fault)]
    /\ hist' = [hist EXCEPT ![k] =
           IF method = "PUT" /\ out.resp.status = 201 THEN HistStore(@, now)
           ELSE IF method = "DELETE" /\ out.resp.status = 200
                THEN HistAck(@, now, Status(storage[k]))
           ELSE @]
    /\ UNCHANGED <<now, calls>>
    /\ UNCHANGED appVars

\* One request to the instance of key k, handled at the instant `now`.
Request(k, method, data, fault) ==
    LET out == fetch(storage[k], scheduled[k], now, method, data, fault) IN
    /\ storage' = [storage EXCEPT ![k] = out.storage]
    /\ scheduled' = [scheduled EXCEPT ![k] = out.scheduled]
    /\ resp' = [resp EXCEPT ![k] = out.resp]
    /\ lastOp' = [lastOp EXCEPT ![k] =
           NextOp(@, method, IF method = "PUT" THEN data ELSE "-", fault)]
    /\ hist' = [hist EXCEPT ![k] =
           IF method = "PUT" /\ out.resp.status = 201 THEN HistStore(@, now)
           ELSE IF method = "DELETE" /\ out.resp.status = 200
                THEN HistAck(@, now, Status(storage[k]))
           ELSE @]
    /\ UNCHANGED <<now, calls>>
    /\ UNCHANGED appVars

Put(K, F) == \E k \in K, data \in Payloads, fault \in F : Request(k, "PUT", data, fault)
Get(K, F) == \E k \in K, fault \in F : Request(k, "GET", "-", fault)
Delete(K, F) == \E k \in K, fault \in F : Request(k, "DELETE", "-", fault)
Other(K, F) == \E k \in K : Request(k, "POST", "-", "none")

\* The host runs alarm() of key k: its scheduled time has come.
Alarm(K, F) ==
    \E k \in K, fault \in F :
        /\ scheduled[k] # NoAlarm
        /\ scheduled[k] <= now
        /\ LET out == alarm(storage[k], scheduled[k], fault) IN
            /\ storage' = [storage EXCEPT ![k] = out.storage]
            /\ scheduled' = [scheduled EXCEPT ![k] = out.scheduled]
            /\ hist' = [hist EXCEPT ![k] =
                   IF out.scheduled = NoAlarm THEN HistPurge(@) ELSE @]
        /\ lastOp' = [lastOp EXCEPT ![k] = NextOp(@, "ALARM", "-", fault)]
        /\ UNCHANGED <<now, resp, calls>>
        /\ UNCHANGED appVars

\* An hour passes; no alarm is left overdue.
Tick ==
    /\ now < MaxTime
    /\ \A k \in Keys : scheduled[k] = NoAlarm \/ now < scheduled[k]
    /\ now' = now + 1
    /\ lastOp' = [k \in Keys |-> [lastOp[k] EXCEPT !.fresh = FALSE]]
    /\ hist' = [k \in Keys |-> HistTick(hist[k], now + 1)]
    /\ UNCHANGED <<storage, scheduled, resp, calls>>
    /\ UNCHANGED appVars

\* Every storage call succeeds and every body is JSON; requests go to SpecKeys.
Next ==
    \/ Put(SpecKeys, NoFault)
    \/ Get(SpecKeys, NoFault)
    \/ Delete(SpecKeys, NoFault)
    \/ Other(SpecKeys, NoFault)
    \/ Alarm(SpecKeys, NoFault)
    \/ Tick

Spec == Init /\ [][Next]_vars

\* The same instance over its first hours, where a body may not be JSON and
\* any storage call of a handler may reject.
FaultHours == 2
TickFaults == now < FaultHours /\ Tick
NextFaults ==
    \/ Put(SpecKeys, Faults)
    \/ Get(SpecKeys, Faults)
    \/ Delete(SpecKeys, Faults)
    \/ Other(SpecKeys, Faults)
    \/ Alarm(SpecKeys, Faults)
    \/ TickFaults

SpecFaults == Init /\ [][NextFaults]_vars

\* Two instances side by side over their first hours: stores, polls,
\* acknowledges and alarms of both keys in any order.
PairHours == 1
TickPair == now < PairHours /\ Tick

NextPair ==
    \/ Put(Keys, NoFault)
    \/ Get(Keys, NoFault)
    \/ Delete(Keys, NoFault)
    \/ Alarm(Keys, NoFault)
    \/ TickPair

SpecPair == Init /\ [][NextPair]_vars

\* ------------------------------------------------------------ awaits
\* The same instance await by await.  A handler runs from one await to the
\* next without a break; an invocation in flight is suspended at the await
\* calls[k][i].pc of its handler.
Await(call, on) == [call |-> call, on |-> on]

\* retrieve with a bug: between its reads it awaits something that is not a
\* storage call
Awaits_retrieveYields(method) ==
    CASE method = "PUT" ->
            <<Await("json", "request"), Await("put record", "storage"),
              Await("setAlarm", "storage")>>
      [] method = "GET" ->
            <<Await("get status", "storage"), Await("wait", "timer"),
              Await("get result", "storage"), Await("get storedAt", "storage")>>
      [] method = "DELETE" ->
            <<Await("put status", "storage"), Await("delete", "storage"),
              Await("setAlarm", "storage")>>
      [] method = "ALARM" -> <<Await("deleteAll", "storage")>>
      [] OTHER -> << >>

\* The awaits of each handler, in program order, and what each waits on:
\* the request body or this.storage.
Awaits(method) ==
    CASE method = "PUT" ->
            <<Await("json", "request"), Await("put record", "storage"),
              Await("setAlarm", "storage")>>
      [] method = "GET" ->
            <<Await("get status", "storage"), Await("get result", "storage"),
              Await("get storedAt", "storage")>>
      [] method = "DELETE" ->
            <<Await("put status", "storage"), Await("delete", "storage"),
              Await("setAlarm", "storage")>>
      [] method = "ALARM" -> <<Await("deleteAll", "storage")>>
      [] OTHER -> << >>

\* The await the invocation c is suspended at.
Awaiting(c) == Awaits(c.method)[c.pc]

\* Run with a bug: setAlarm is called without await, so store and acknowledge
\* return once their write is done
Run_respondsAfterWrite(c, s, al, t) ==
    LET Cont(s2, res) ==
            [storage |-> s2, scheduled |-> al, resp |-> NoResponse,
             returns |-> FALSE, result |-> res]
        Ret(s2, al2, r) ==
            [storage |-> s2, scheduled |-> al2, resp |-> r,
             returns |-> TRUE, result |-> Undefined]
        call == Awaiting(c).call
    IN  CASE call = "json" -> Cont(s, c.result)
          [] call = "put record" ->
                Ret(put(s, [result |-> c.data, status |-> "ready",
                            storedAt |-> toISOString(t)]),
                    t + UNCLAIMED_TTL, TextResponse("stored", 201))
          [] call = "setAlarm" /\ c.method = "PUT" ->
                Ret(s, t + UNCLAIMED_TTL, TextResponse("stored", 201))
          [] call = "get status" ->
                IF get(s, "status") = "deleted"
                THEN Ret(s, al, JsonResponse([message |-> "Result deleted"], 404))
                ELSE IF get(s, "status") # "ready"
                THEN Ret(s, al, JsonResponse([status |-> "pending"], 202))
                ELSE Cont(s, c.result)
          [] call = "get result" -> Cont(s, get(s, "result"))
          [] call = "get storedAt" ->
                Ret(s, al,
                    JsonResponse(
                        [f \in {"status"}
                               \cup (IF c.result # Undefined THEN {"result"} ELSE {})
                               \cup ({"storedAt"} \cap DOMAIN s) |->
                            CASE f = "status" -> "ready"
                              [] f = "result" -> c.result
                              [] OTHER -> s[f]],
                        200))
          [] call = "put status" -> Cont(put(s, [status |-> "deleted"]), c.result)
          [] call = "delete" ->
                Ret(delete(s, {"result", "storedAt"}),
                    t + TOMBSTONE_TTL, TextResponse("deleted", 200))
          [] call = "setAlarm" /\ c.method = "DELETE" ->
                Ret(s, t + TOMBSTONE_TTL, TextResponse("deleted", 200))
          [] call = "deleteAll" -> Ret(EmptyStorage, NoAlarm, NoResponse)
          [] OTHER -> Cont(s, c.result)

\* The awaited call of invocation c completes at time t and the handler runs
\* on to its next await (returns = FALSE) or to its return.
Run(c, s, al, t) ==
    LET Cont(s2, res) ==
            [storage |-> s2, scheduled |-> al, resp |-> NoResponse,
             returns |-> FALSE, result |-> res]
        Ret(s2, al2, r) ==
            [storage |-> s2, scheduled |-> al2, resp |-> r,
             returns |-> TRUE, result |-> Undefined]
        call == Awaiting(c).call
    IN  CASE call = "json" -> Cont(s, c.result)
          [] call = "put record" ->
                Cont(put(s, [result |-> c.data, status |-> "ready",
                             storedAt |-> toISOString(t)]), c.result)
          [] call = "setAlarm" /\ c.method = "PUT" ->
                Ret(s, t + UNCLAIMED_TTL, TextResponse("stored", 201))
          [] call = "get status" ->
                IF get(s, "status") = "deleted"
                THEN Ret(s, al, JsonResponse([message |-> "Result deleted"], 404))
                ELSE IF get(s, "status") # "ready"
                THEN Ret(s, al, JsonResponse([status |-> "pending"], 202))
                ELSE Cont(s, c.result)
          [] call = "get result" -> Cont(s, get(s, "result"))
          [] call = "get storedAt" ->
                Ret(s, al,
                    JsonResponse(
                        [f \in {"status"}
                               \cup (IF c.result # Undefined THEN {"result"} ELSE {})
                               \cup ({"storedAt"} \cap DOMAIN s) |->
                            CASE f = "status" -> "ready"
                              [] f = "result" -> c.result
                              [] OTHER -> s[f]],
                        200))
          [] call = "put status" -> Cont(put(s, [status |-> "deleted"]), c.result)
          [] call = "delete" -> Cont(delete(s, {"result", "storedAt"}), c.result)
          [] call = "setAlarm" /\ c.method = "DELETE" ->
                Ret(s, t + TOMBSTONE_TTL, TextResponse("deleted", 200))
          [] call = "deleteAll" -> Ret(EmptyStorage, NoAlarm, NoResponse)
          [] OTHER -> Cont(s, c.result)

\* The input gate of a Durable Object: while an invocation awaits a call on
\* this.storage, no other event is delivered to the instance.
HoldsGate(c) == c.method # "NONE" /\ Awaiting(c).on = "storage"
InputGateOpen(k) == \A i \in Slots : ~HoldsGate(calls[k][i])

\* The invocation c is suspended with storage s and alarm al: its first
\* storage call is noted with the state it finds.
Suspend(c, s, al, t) ==
    IF ~c.started /\ Awaiting(c).on = "storage"
    THEN [c EXCEPT !.started = TRUE,
                   !.snap = [storage |-> s, scheduled |-> al, now |-> t]]
    ELSE c

FreeSlot(k) ==
    CHOOSE i \in Slots :
        /\ calls[k][i] = Idle
        /\ \A j \in Slots : j < i => calls[k][j] # Idle

\* The handler of `method` starts on the instance k and runs to its first await.
Invoke(k, method, data) ==
    /\ InputGateOpen(k)
    /\ \E i \in Slots : calls[k][i] = Idle
    /\ calls' = [calls EXCEPT ![k][FreeSlot(k)] =
           Suspend([Idle EXCEPT !.method = method, !.pc = 1, !.data = data],
                   storage[k], scheduled[k], now)]

\* fetch(request) is delivered to the instance k.
Deliver(K) ==
    \E k \in K, method \in {"PUT", "GET", "DELETE"}, data \in Payloads :
        /\ method # "PUT" => data = "X"
        /\ Invoke(k, method, IF method = "PUT" THEN data ELSE "-")
        /\ UNCHANGED <<now, storage, scheduled, resp, lastOp, hist>>
        /\ UNCHANGED appVars

\* fetch(request) with another verb: answered before any await.
Refuse(K) ==
    \E k \in K :
        /\ InputGateOpen(k)
        /\ resp' = [resp EXCEPT ![k] =
               fetch(storage[k], scheduled[k], now, "POST", "-", "none").resp]
        /\ UNCHANGED <<now, storage, scheduled, lastOp, hist, calls>>
        /\ UNCHANGED appVars

\* The host starts alarm() of key k: its scheduled time has come.
AlarmDue(K) ==
    \E k \in K :
        /\ scheduled[k] # NoAlarm
        /\ scheduled[k] <= now
        /\ Invoke(k, "ALARM", "-")
        /\ UNCHANGED <<now, storage, scheduled, resp, lastOp, hist>>
        /\ UNCHANGED appVars

\* The call awaited by the i-th invocation on k completes.
Complete(K) ==
    \E k \in K, i \in Slots :
        LET c == calls[k][i] IN
        /\ c.method # "NONE"
        /\ HoldsGate(c) \/ InputGateOpen(k)
        /\ LET out == Run(c, storage[k], scheduled[k], now) IN
            /\ storage' = [storage EXCEPT ![k] = out.storage]
            /\ scheduled' = [scheduled EXCEPT ![k] = out.scheduled]
            /\ resp' = [resp EXCEPT ![k] =
                   IF out.returns /\ c.method # "ALARM" THEN out.resp ELSE @]
            /\ calls' = [calls EXCEPT ![k][i] =
                   IF out.returns
                   THEN Idle
                   ELSE Suspend([c EXCEPT !.pc = @ + 1, !.result = out.result],
                                out.storage, out.scheduled, now)]
        /\ UNCHANGED <<now, lastOp, hist>>
        /\ UNCHANGED appVars

\* An hour passes while no storage call is awaited and no alarm is overdue.
StepHours == 2
TickSteps ==
    /\ now < StepHours
    /\ \A k \in Keys : InputGateOpen(k)
    /\ \A k \in Keys : scheduled[k] = NoAlarm \/ now < scheduled[k]
    /\ now' = now + 1
    /\ UNCHANGED <<storage, scheduled, resp, lastOp, hist, calls>>
    /\ UNCHANGED appVars

NextSteps ==
    \/ Deliver(SpecKeys)
    \/ Refuse(SpecKeys)
    \/ AlarmDue(SpecKeys)
    \/ Complete(SpecKeys)
    \/ TickSteps

SpecSteps == Init /\ [][NextSteps]_vars

\* The setAlarm awaited by an invocation on k rejects: the catch block takes
\* it, the alarm stays as it was and the handler returns its response.
RejectAlarm(K) ==
    \E k \in K, i \in Slots :
        LET c == calls[k][i] IN
        /\ c.method \in {"PUT", "DELETE"}
        /\ Awaiting(c).call = "setAlarm"
        /\ resp' = [resp EXCEPT ![k] =
               Run(c, storage[k], scheduled[k], now).resp]
        /\ calls' = [calls EXCEPT ![k][i] = Idle]
        /\ UNCHANGED <<now, storage, scheduled, lastOp, hist>>
        /\ UNCHANGED appVars

NextStepsFaults ==
    \/ NextSteps
    \/ RejectAlarm(SpecKeys)

SpecStepsFaults == Init /\ [][NextStepsFaults]_vars

\* ------------------------------------------------------------ queue consumer
\* src/src/queues/example.consumer.ts.  A job is its type and whether its
\* processor rejects; "sms" is a type outside the AnyJob union.
MaxBatch == 3
JobTypes == {"email", "report", "sms"}
Jobs ==
    {j \in [type : JobTypes, throws : BOOLEAN] : j.type = "sms" => ~j.throws}
Batches == UNION {[1..n -> Jobs] : n \in 0..MaxBatch}

\* handleQueue is called with the messages m.
NewBatch(m) == [messages |-> m, i |-> 1, settled |-> [j \in DOMAIN m |-> << >>]]

\* The switch on job.type: processEmail, processReport, or a warning.
process(job) ==
    CASE job.type = "email" -> IF job.throws THEN "threw" ELSE "done"
      [] job.type = "report" -> IF job.throws THEN "threw" ELSE "done"
      [] OTHER -> "done"

\* the loop body with a bug: the catch block throws the error on after retry
handleMessage_stopsOnFailure(b) ==
    IF process(b.messages[b.i]) = "done"
    THEN [b EXCEPT !.settled[b.i] = Append(@, "ack"), !.i = @ + 1]
    ELSE [b EXCEPT !.settled[b.i] = Append(@, "retry"),
                   !.i = Len(b.messages) + 1]

\* One pass of the loop of handleQueue: msg.ack() at the end of the try,
\* msg.retry() in the catch.
handleMessage(b) ==
    IF process(b.messages[b.i]) = "done"
    THEN [b EXCEPT !.settled[b.i] = Append(@, "ack"), !.i = @ + 1]
    ELSE [b EXCEPT !.settled[b.i] = Append(@, "retry"), !.i = @ + 1]

HandleMessage ==
    /\ batch.i <= Len(batch.messages)
    /\ batch' = handleMessage(batch)
    /\ UNCHANGED <<actorVars, ab, limiter, sub, posts>>

InitQueue ==
    /\ InitActor
    /\ batch \in {NewBatch(m) : m \in Batches}
    /\ ABIdle /\ LimiterIdle /\ SubIdle /\ PostsIdle

NextQueue == HandleMessage

SpecQueue == InitQueue /\ [][NextQueue]_vars

\* ------------------------------------------------------------ A/B testing
\* src/unnamed/part_009 (ABTestingService) over the tables of
\* ab-testing.repository.ts, for one user and one experiment key.  Every
\* await of getOrAssignVariant is a step; the tables can change in between.
MaxABCalls == 2
ABCalls == 1..MaxABCalls
\* ab_variants rows of the experiment, in table order
VariantKeys == <<"control", "treatment">>
Weights == {0, 1}
\* ab_experiments.status; "none": no row with the key
ExperimentStatus == {"none", "draft", "active"}
Null == "null"
Threw == "threw"

NoCall == [pc |-> "idle", variants |-> << >>, selected |-> Null, result |-> Null]

\* repo.getEnabledVariants / repo.getAllVariants: the rows, in table order
SelectVariants(a, enabledOnly) ==
    LET Sel[n \in 0..Len(VariantKeys)] ==
            IF n = 0 THEN << >>
            ELSE IF enabledOnly => a.enabled[VariantKeys[n]]
                 THEN Append(Sel[n - 1], VariantKeys[n])
                 ELSE Sel[n - 1]
    IN  Sel[Len(VariantKeys)]

\* ABTestingRepository.getEnabledVariants: where enabled = true
getEnabledVariants(a) == SelectVariants(a, TRUE)

\* ABTestingRepository.getAllVariants
getAllVariants(a) == SelectVariants(a, FALSE)

\* weightedRandom(variants) where Math.random() is q / RandomSteps: the
\* first variant at which random, less the weights so far, is <= 0, and the
\* last variant when there is none.
RandomSteps == 4
totalWeight(a, variants) ==
    LET Sum[n \in 0..Len(variants)] ==
            IF n = 0 THEN 0 ELSE Sum[n - 1] + a.weight[variants[n]]
    IN  Sum[Len(variants)]
weightedRandom(a, variants, q) ==
    LET Walk[n \in 1..Len(variants)] ==
            \* random, times RandomSteps, after the weights of variants 1..n
            q * totalWeight(a, variants)
                - RandomSteps * totalWeight(a, SubSeq(variants, 1, n))
        hits == {n \in 1..Len(variants) : Walk[n] <= 0}
    IN  IF hits = {} THEN variants[Len(variants)]
        ELSE variants[CHOOSE n \in hits : \A m \in hits : n <= m]

\* getOrAssignVariant with a bug: a new assignment is drawn from all the
\* variants of the experiment
NextAwait_allVariants(a, c, q) ==
    CASE c.pc = "getActiveExperiment" ->
            IF a.status # "active"
            THEN [a |-> a, c |-> [c EXCEPT !.pc = "idle", !.result = Null]]
            ELSE [a |-> a, c |-> [c EXCEPT !.pc = "getAssignment"]]
      [] c.pc = "getAssignment" ->
            IF a.assignments # << >>
            THEN [a |-> a, c |-> [c EXCEPT !.pc = "getAllVariants"]]
            ELSE [a |-> a, c |-> [c EXCEPT !.pc = "getEnabledVariants"]]
      [] c.pc = "getAllVariants" ->
            [a |-> a, c |-> [c EXCEPT !.pc = "idle", !.result = a.assignments[1]]]
      [] c.pc = "getEnabledVariants" ->
            LET variants == getAllVariants(a) IN
            IF Len(variants) = 0
            THEN [a |-> a, c |-> [c EXCEPT !.pc = "idle", !.result = Null]]
            ELSE [a |-> a,
                  c |-> [c EXCEPT !.pc = "createAssignment",
                                  !.variants = variants,
                                  !.selected = weightedRandom(a, variants, q)]]
      [] c.pc = "createAssignment" ->
            IF a.assignments # << >>
            THEN [a |-> a, c |-> [c EXCEPT !.pc = "idle", !.result = Threw]]
            ELSE [a |-> [a EXCEPT !.assignments = <<c.selected>>],
                  c |-> [c EXCEPT !.pc = "idle", !.result = c.selected]]

\* getOrAssignVariant(userId, experimentKey): the await c.pc of the call c
\* completes on the tables a, and the call runs on to its next await or to
\* its return.  The unique index on (userId, experimentId) makes a second
\* insert for the pair reject, and the call with it.
NextAwait(a, c, q) ==
    CASE c.pc = "getActiveExperiment" ->
            IF a.status # "active"
            THEN [a |-> a, c |-> [c EXCEPT !.pc = "idle", !.result = Null]]
            ELSE [a |-> a, c |-> [c EXCEPT !.pc = "getAssignment"]]
      [] c.pc = "getAssignment" ->
            IF a.assignments # << >>
            THEN [a |-> a, c |-> [c EXCEPT !.pc = "getAllVariants"]]
            ELSE [a |-> a, c |-> [c EXCEPT !.pc = "getEnabledVariants"]]
      [] c.pc = "getAllVariants" ->
            [a |-> a, c |-> [c EXCEPT !.pc = "idle", !.result = a.assignments[1]]]
      [] c.pc = "getEnabledVariants" ->
            LET variants == getEnabledVariants(a) IN
            IF Len(variants) = 0
            THEN [a |-> a, c |-> [c EXCEPT !.pc = "idle", !.result = Null]]
            ELSE [a |-> a,
                  c |-> [c EXCEPT !.pc = "createAssignment",
                                  !.variants = variants,
                                  !.selected = weightedRandom(a, variants, q)]]
      [] c.pc = "createAssignment" ->
            IF a.assignments # << >>
            THEN [a |-> a, c |-> [c EXCEPT !.pc = "idle", !.result = Threw]]
            ELSE [a |-> [a EXCEPT !.assignments = <<c.selected>>],
                  c |-> [c EXCEPT !.pc = "idle", !.result = c.selected]]

ABFrame == UNCHANGED <<actorVars, batch, limiter, sub, posts>>

\* A call of getOrAssignVariant starts: it awaits getActiveExperiment.
CallVariant ==
    \E i \in ABCalls :
        /\ ab.calls[i].pc = "idle"
        /\ ab' = [ab EXCEPT !.calls[i] = [NoCall EXCEPT !.pc = "getActiveExperiment"]]
        /\ ABFrame

\* The await of the call i completes.
ResumeVariant ==
    \E i \in ABCalls, q \in 0..(RandomSteps - 1) :
        /\ ab.calls[i].pc # "idle"
        /\ ab.calls[i].pc # "getEnabledVariants" => q = 0
        /\ LET out == NextAwait(ab, ab.calls[i], q) IN
            ab' = [out.a EXCEPT
                      !.calls[i] = out.c,
                      !.first = IF @ = Null /\ out.c.pc = "idle"
                                   /\ out.c.result \notin {Null, Threw}
                                THEN out.c.result ELSE @]
        /\ ABFrame

\* repo.updateVariant(id, {weight, enabled}), from the admin routes
UpdateVariant ==
    \E v \in {VariantKeys[n] : n \in DOMAIN VariantKeys},
       w \in Weights, e \in BOOLEAN :
        /\ ab' = [ab EXCEPT !.weight[v] = w, !.enabled[v] = e]
        /\ ABFrame

\* repo.updateExperimentStatus(id, status), from the admin routes
UpdateExperimentStatus ==
    \E s \in ExperimentStatus \ {"none"} :
        /\ ab.status # "none"
        /\ ab' = [ab EXCEPT !.status = s]
        /\ ABFrame

InitAB ==
    /\ InitActor
    /\ QueueIdle /\ LimiterIdle /\ SubIdle /\ PostsIdle
    /\ \E s \in ExperimentStatus,
          w \in [{VariantKeys[n] : n \in DOMAIN VariantKeys} -> Weights],
          e \in [{VariantKeys[n] : n \in DOMAIN VariantKeys} -> BOOLEAN] :
          ab = [status |-> s, weight |-> w, enabled |-> e,
                assignments |-> << >>, first |-> Null,
                calls |-> [i \in ABCalls |-> NoCall]]

NextAB ==
    \/ CallVariant
    \/ ResumeVariant
    \/ UpdateVariant
    \/ UpdateExperimentStatus

SpecAB == InitAB /\ [][NextAB]_vars

\* ------------------------------------------------------------ rate limiter
\* src/src/core/middleware/rate-limit.middleware.ts, for one limiter key
\* (prefix and client IP).  Every await of the middleware is a step; requests
\* of the same key overlap.  Time is in seconds.
limit == 2
windowSeconds == 1
\* the background cleanup deletes rows older than windowStart - 3600
CleanupAge == 3600
MaxClock == 2
MaxRequests == 3
\* two invocations of the middleware may be in flight at once
Requests == {"r1", "r2"}

NoRequest ==
    [pc |-> "idle", now |-> NoTime, invoked |-> 0,
     storeFailed |-> FALSE, nextThrew |-> FALSE, out |-> "none"]

\* select count(*) from rate_limits where key = key and timestamp >= windowStart
Count(rows, windowStart) ==
    LET Sum[s \in -1..MaxClock] ==
            IF s = -1 THEN 0
            ELSE Sum[s - 1] + (IF s >= windowStart THEN rows[s] ELSE 0)
    IN  Sum[MaxClock]

\* delete from rate_limits where timestamp < windowStart - 3600
Cleanup(rows, windowStart) ==
    [s \in DOMAIN rows |-> IF s < windowStart - CleanupAge THEN 0 ELSE rows[s]]

\* next(): the downstream handler runs once; a second call of next() by the
\* same middleware is refused by the router and rejects without running it.
next(r, down) ==
    IF r.invoked > 0
    THEN [r EXCEPT !.pc = "idle", !.out = "error"]
    ELSE IF down = "done"
    THEN [r EXCEPT !.pc = "idle", !.invoked = @ + 1, !.out = "passed"]
    ELSE [r EXCEPT !.invoked = @ + 1, !.nextThrew = TRUE,
                   !.pc = IF r.pc = "next" THEN "catch" ELSE "idle",
                   !.out = IF r.pc = "next" THEN "none" ELSE "error"]

\* the middleware with a bug: the catch block answers 500 instead of calling
\* next()
rateLimitStep_failsClosed(rows, r, ok, down) ==
    LET windowStart == r.now - windowSeconds IN
    CASE r.pc = "count" ->
            IF ~ok
            THEN [rows |-> rows, r |-> [r EXCEPT !.pc = "catch", !.storeFailed = TRUE]]
            ELSE LET currentCount == Count(rows, windowStart) IN
                 [rows |-> Cleanup(rows, windowStart),
                  r |-> IF currentCount >= limit
                        THEN [r EXCEPT !.pc = "idle", !.out = "429"]
                        ELSE [r EXCEPT !.pc = "insert"]]
      [] r.pc = "insert" ->
            IF ~ok
            THEN [rows |-> rows, r |-> [r EXCEPT !.pc = "catch", !.storeFailed = TRUE]]
            ELSE [rows |-> [rows EXCEPT ![r.now] = @ + 1],
                  r |-> [r EXCEPT !.pc = "next"]]
      [] r.pc = "next" -> [rows |-> rows, r |-> next(r, down)]
      [] r.pc = "catch" ->
            [rows |-> rows, r |-> [r EXCEPT !.pc = "idle", !.out = "error"]]

\* The middleware returned by rateLimit(config), from one await to the next:
\* the count, the insert, next() at the end of the try, next() in the catch.
\* ok: the store call succeeds; down: what the downstream handler does.
rateLimitStep(rows, r, ok, down) ==
    LET windowStart == r.now - windowSeconds IN
    CASE r.pc = "count" ->
            IF ~ok
            THEN [rows |-> rows, r |-> [r EXCEPT !.pc = "catch", !.storeFailed = TRUE]]
            ELSE LET currentCount == Count(rows, windowStart) IN
                 [rows |-> Cleanup(rows, windowStart),
                  r |-> IF currentCount >= limit
                        THEN [r EXCEPT !.pc = "idle", !.out = "429"]
                        ELSE [r EXCEPT !.pc = "insert"]]
      [] r.pc = "insert" ->
            IF ~ok
            THEN [rows |-> rows, r |-> [r EXCEPT !.pc = "catch", !.storeFailed = TRUE]]
            ELSE [rows |-> [rows EXCEPT ![r.now] = @ + 1],
                  r |-> [r EXCEPT !.pc = "next"]]
      [] r.pc = "next" -> [rows |-> rows, r |-> next(r, down)]
      [] r.pc = "catch" -> [rows |-> rows, r |-> next(r, down)]

LimiterFrame == UNCHANGED <<actorVars, batch, ab, sub, posts>>

\* A request of the key reaches the middleware: now = Math.floor(Date.now() / 1000).
Arrive ==
    \E i \in Requests :
        /\ limiter.requests[i].pc = "idle"
        /\ limiter.arrived < MaxRequests
        /\ limiter' = [limiter EXCEPT
               !.arrived = @ + 1,
               !.requests[i] = [NoRequest EXCEPT !.pc = "count", !.now = limiter.clock]]
        /\ LimiterFrame

\* The await of request i completes.
Proceed(StoreOK) ==
    \E i \in Requests, ok \in StoreOK, down \in {"done", "threw"} :
        LET r == limiter.requests[i] IN
        /\ r.pc # "idle"
        /\ r.pc \in {"count", "insert"} => down = "done"
        /\ r.pc \in {"next", "catch"} => ok
        /\ LET out == rateLimitStep(limiter.rows, r, ok, down) IN
            limiter' = [limiter EXCEPT !.rows = out.rows, !.requests[i] = out.r]
        /\ LimiterFrame

\* A second passes.
Second ==
    /\ limiter.clock < MaxClock
    /\ limiter' = [limiter EXCEPT !.clock = @ + 1]
    /\ LimiterFrame

InitLimiter ==
    /\ InitActor
    /\ QueueIdle /\ ABIdle /\ SubIdle /\ PostsIdle
    /\ limiter = [rows |-> [s \in 0..MaxClock |-> 0], clock |-> 0, arrived |-> 0,
                  requests |-> [i \in Requests |-> NoRequest]]

\* The rate-limit store may fail at any call.
NextLimiter ==
    \/ Arrive
    \/ Proceed(BOOLEAN)
    \/ Second

SpecLimiter == InitLimiter /\ [][NextLimiter]_vars

\* The rate-limit store is working.
NextLimiterOK ==
    \/ Arrive
    \/ Proceed({TRUE})
    \/ Second

SpecLimiterOK == InitLimiter /\ [][NextLimiterOK]_vars

\* ------------------------------------------------------------ subscription check
\* src/src/core/middleware/subscription.middleware.ts and
\* src/src/cron/jobs/cleanup-expired-subscriptions.ts, for one user row.
\* subscription_expires_at is a text column: null, an ISO date (an instant of
\* the model's clock) or text that is not a date.
MaxSubClock == 2
MaxSubRequests == 2
Tiers == {"free", "pro"}
NullExpiry == [kind |-> "null", at |-> 0]
NotADate == [kind |-> "text", at |-> 0]
IsoDate(n) == [kind |-> "date", at |-> n]
Expiries == {NullExpiry, NotADate} \cup {IsoDate(n) : n \in 0..MaxSubClock}
Users == [subscriptionTier : Tiers, subscriptionExpiresAt : Expiries]
FreeUser == [subscriptionTier |-> "free", subscriptionExpiresAt |-> NullExpiry]

\* new Date(text) < new Date(): false for an Invalid Date
ExpiredAt(expiry, clock) == expiry.kind = "date" /\ expiry.at < clock

NoSubRequest ==
    [pc |-> "idle", hasUser |-> FALSE, entry |-> FreeUser, user |-> FreeUser,
     wrote |-> FALSE, at |-> NoTime, out |-> "none"]

\* the middleware with a bug: the row is downgraded, the in-request user is not
checkSubscriptionStatus_staleUser(stored, r, clock, ok) ==
    CASE r.pc = "check" ->
            IF ~r.hasUser
            THEN [stored |-> stored, r |-> [r EXCEPT !.pc = "idle", !.out = "401"]]
            ELSE IF /\ r.user.subscriptionTier # "free"
                    /\ r.user.subscriptionExpiresAt # NullExpiry
                    /\ ExpiredAt(r.user.subscriptionExpiresAt, clock)
            THEN [stored |-> stored, r |-> [r EXCEPT !.pc = "update"]]
            ELSE [stored |-> stored,
                  r |-> [r EXCEPT !.pc = "idle", !.out = "passed", !.at = clock]]
      [] r.pc = "update" ->
            IF ~ok
            THEN [stored |-> stored, r |-> [r EXCEPT !.pc = "idle", !.out = "error"]]
            ELSE [stored |-> FreeUser,
                  r |-> [r EXCEPT !.pc = "idle", !.wrote = TRUE,
                                  !.out = "passed", !.at = clock]]

\* checkSubscriptionStatus(c, next), up to its await and from it to next().
\* ok: the update of the users row succeeds.
checkSubscriptionStatus(stored, r, clock, ok) ==
    CASE r.pc = "check" ->
            IF ~r.hasUser
            THEN [stored |-> stored, r |-> [r EXCEPT !.pc = "idle", !.out = "401"]]
            ELSE IF /\ r.user.subscriptionTier # "free"
                    /\ r.user.subscriptionExpiresAt # NullExpiry
                    /\ ExpiredAt(r.user.subscriptionExpiresAt, clock)
            THEN [stored |-> stored, r |-> [r EXCEPT !.pc = "update"]]
            ELSE [stored |-> stored,
                  r |-> [r EXCEPT !.pc = "idle", !.out = "passed", !.at = clock]]
      [] r.pc = "update" ->
            IF ~ok
            THEN [stored |-> stored, r |-> [r EXCEPT !.pc = "idle", !.out = "error"]]
            ELSE [stored |-> FreeUser,
                  r |-> [r EXCEPT !.pc = "idle", !.user = FreeUser, !.wrote = TRUE,
                                  !.out = "passed", !.at = clock]]

\* The update of the cron job: where subscription_expires_at is not null and
\* subscription_expires_at < now, a comparison of text.  lt: what the
\* comparison gives for text that is not a date.
cleanupExpiredSubscriptions(stored, clock, lt) ==
    IF /\ stored.subscriptionExpiresAt # NullExpiry
       /\ IF stored.subscriptionExpiresAt.kind = "date"
          THEN stored.subscriptionExpiresAt.at < clock
          ELSE lt
    THEN FreeUser
    ELSE stored

SubFrame == UNCHANGED <<actorVars, batch, ab, limiter, posts>>

\* The auth middleware loads the row and sets the in-request user; withUser is
\* false when the subscription check runs with no user set.
Authenticate ==
    \E withUser \in BOOLEAN :
        /\ sub.request.pc = "idle"
        /\ sub.started < MaxSubRequests
        /\ sub' = [sub EXCEPT
               !.started = @ + 1,
               !.request = [NoSubRequest EXCEPT
                   !.pc = "check", !.hasUser = withUser,
                   !.entry = IF withUser THEN sub.stored ELSE FreeUser,
                   !.user = IF withUser THEN sub.stored ELSE FreeUser]]
        /\ SubFrame

CheckSubscription ==
    \E ok \in BOOLEAN :
        /\ sub.request.pc # "idle"
        /\ sub.request.pc = "check" => ok
        /\ LET out == checkSubscriptionStatus(sub.stored, sub.request, sub.clock, ok) IN
            sub' = [sub EXCEPT !.stored = out.stored, !.request = out.r]
        /\ SubFrame

CronCleanup ==
    \E lt \in BOOLEAN :
        /\ sub.stored.subscriptionExpiresAt.kind # "text" => lt
        /\ sub' = [sub EXCEPT !.stored = cleanupExpiredSubscriptions(sub.stored, sub.clock, lt)]
        /\ sub'.stored # sub.stored
        /\ SubFrame

SubTick ==
    /\ sub.clock < MaxSubClock + 1
    /\ sub' = [sub EXCEPT !.clock = @ + 1]
    /\ SubFrame

InitSub ==
    /\ InitActor
    /\ QueueIdle /\ ABIdle /\ LimiterIdle /\ PostsIdle
    /\ \E u \in Users :
          sub = [stored |-> u, clock |-> 0, started |-> 0, request |-> NoSubRequest]

NextSub ==
    \/ Authenticate
    \/ CheckSubscription
    \/ CronCleanup
    \/ SubTick

SpecSub == InitSub /\ [][NextSub]_vars

\* ------------------------------------------------------------ posts
\* src/src/features/posts/core/posts.service.ts over
\* src/src/features/posts/data/posts.repository.ts: the posts table, and the
\* calls of the service, each one statement on the table.
PostIds == {"post-1", "post-2"}
Authors == {"user-1", "user-2"}
Titles == {"Hello", "Updated"}
NoAuthor == "none"
NoPost == [authorId |-> NoAuthor, title |-> "Hello"]
Posts == {NoPost} \cup [authorId : Authors, title : Titles]
PostNotFoundError == "PostNotFoundError"
NoPostsCall == [op |-> "none", id |-> "post-1", authorId |-> NoAuthor,
                result |-> "none", post |-> NoPost]

\* where id = id and author_id = authorId
Matches(table, id, authorId) == table[id] # NoPost /\ table[id].authorId = authorId

\* PostsRepository.findByIdAndAuthor: the row, or NoPost for undefined
findByIdAndAuthor(table, id, authorId) ==
    IF Matches(table, id, authorId) THEN table[id] ELSE NoPost

\* the repository with a bug: the update is filtered by id only
PostsRepository_update_anyAuthor(table, id, authorId, title) ==
    IF table[id] # NoPost
    THEN [table |-> [table EXCEPT ![id].title = title],
          post |-> [table[id] EXCEPT !.title = title]]
    ELSE [table |-> table, post |-> NoPost]

\* PostsRepository.update: the rows matched are set and returned
PostsRepository_update(table, id, authorId, title) ==
    IF Matches(table, id, authorId)
    THEN [table |-> [table EXCEPT ![id].title = title],
          post |-> [table[id] EXCEPT !.title = title]]
    ELSE [table |-> table, post |-> NoPost]

\* PostsRepository.delete: the rows matched are deleted; whether there was one
PostsRepository_delete(table, id, authorId) ==
    IF Matches(table, id, authorId)
    THEN [table |-> [table EXCEPT ![id] = NoPost], deleted |-> TRUE]
    ELSE [table |-> table, deleted |-> FALSE]

PostsResult(op, id, authorId, table, found, post) ==
    [table |-> table,
     last |-> [op |-> op, id |-> id, authorId |-> authorId,
               result |-> IF found THEN "ok" ELSE PostNotFoundError,
               post |-> post]]

\* PostsService.getById
PostsService_getById(table, id, authorId) ==
    LET post == findByIdAndAuthor(table, id, authorId) IN
    PostsResult("getById", id, authorId, table, post # NoPost, post)

\* PostsService.update
PostsService_update(table, id, authorId, title) ==
    LET out == PostsRepository_update(table, id, authorId, title) IN
    PostsResult("update", id, authorId, out.table, out.post # NoPost, out.post)

\* PostsService.delete
PostsService_delete(table, id, authorId) ==
    LET out == PostsRepository_delete(table, id, authorId) IN
    PostsResult("delete", id, authorId, out.table, out.deleted, NoPost)

\* PostsService.create: the id is a fresh UUID
PostsService_create(table, id, authorId, title) ==
    LET post == [authorId |-> authorId, title |-> title] IN
    PostsResult("create", id, authorId, [table EXCEPT ![id] = post], TRUE, post)

PostsFrame == UNCHANGED <<actorVars, batch, ab, limiter, sub>>

GetByIdPost ==
    \E id \in PostIds, authorId \in Authors :
        /\ posts' = PostsService_getById(posts.table, id, authorId)
        /\ PostsFrame

UpdatePost ==
    \E id \in PostIds, authorId \in Authors, title \in Titles :
        /\ posts' = PostsService_update(posts.table, id, authorId, title)
        /\ PostsFrame

DeletePost ==
    \E id \in PostIds, authorId \in Authors :
        /\ posts' = PostsService_delete(posts.table, id, authorId)
        /\ PostsFrame

CreatePost ==
    \E id \in PostIds, authorId \in Authors, title \in Titles :
        /\ posts.table[id] = NoPost
        /\ posts' = PostsService_create(posts.table, id, authorId, title)
        /\ PostsFrame

InitPosts ==
    /\ InitActor
    /\ QueueIdle /\ ABIdle /\ LimiterIdle /\ SubIdle
    /\ posts = [table |-> [id \in PostIds |-> NoPost], last |-> NoPostsCall]

NextPosts ==
    \/ GetByIdPost
    \/ UpdatePost
    \/ DeletePost
    \/ CreatePost

SpecPosts == InitPosts /\ [][NextPosts]_vars

\* ------------------------------------------------------------ properties
\* The responses the specification names.
Pending == [status |-> 202, body |-> [json |-> [status |-> "pending"]]]
NotFound == [status |-> 404, body |-> [json |-> [message |-> "Result deleted"]]]
Stored == [status |-> 201, body |-> [text |-> "stored"]]
Deleted == [status |-> 200, body |-> [text |-> "deleted"]]
\* r is 200 {status: "ready", result, storedAt} and nothing else
IsReady(r) ==
    /\ r.status = 200
    /\ DOMAIN r.body = {"json"}
    /\ DOMAIN r.body.json = {"status", "result", "storedAt"}
    /\ r.body.json.status = "ready"

\* The steps of the instance of key k.
Poll(k) == Request(k, "GET", "-", "none")
Ack(k) == Request(k, "DELETE", "-", "none")
Tombstone == [status |-> "deleted"]

\* C1: a poll of a key that no store was ever performed on returns pending
\* (202), whatever polls, acknowledges, timer fires and other verbs came before.
C1_NeverStoredPollsPending ==
    \A k \in Keys :
        (~hist[k].everStored /\ lastOp[k].verb = "GET") => resp[k] = Pending

\* C2: a poll that immediately follows a store answered 201 returns 200 ready
\* with the payload of that store and a storedAt not before the store's time.
C2_RoundTrip ==
    [][\A k \in Keys :
        (lastOp[k].verb = "PUT" /\ resp[k] = Stored /\ Poll(k)) =>
            /\ IsReady(resp'[k])
            /\ resp'[k].body.json.result = lastOp[k].data
            /\ parseISO(resp'[k].body.json.storedAt) >= hist[k].lastStoreAt
            /\ hist[k].lastStoreAt >= 0]_vars

C2_Witness ==
    \E k \in Keys :
        /\ lastOp[k].verb = "GET" /\ lastOp[k].prev = "PUT"
        /\ IsReady(resp[k])
        /\ resp[k].body.json.result = JsonNull
        /\ hist[k].tomb = "restored"

\* C3 as stated: once a ready record has been acknowledged, every poll before
\* the purge returns 404.
C3_TombstoneUntilPurge ==
    \A k \in Keys :
        (hist[k].tomb \in {"acked", "restored"} /\ lastOp[k].verb = "GET") =>
            resp[k] = NotFound

\* C3 amended: once a ready record has been acknowledged, every poll before the
\* purge and before any later store returns 404.
C3_TombstoneUntilPurgeOrStore ==
    \A k \in Keys :
        (hist[k].tomb = "acked" /\ lastOp[k].verb = "GET") => resp[k] = NotFound

C3_Witness ==
    \E k \in Keys :
        /\ hist[k].tomb = "acked"
        /\ lastOp[k].verb = "GET" /\ lastOp[k].prev = "GET"
        /\ resp[k] = NotFound

\* C4 as stated: when no acknowledge came within UNCLAIMED_TTL of a store, a
\* poll issued after that window returns pending.
C4_PendingAfterUnclaimedWindow ==
    \A k \in Keys :
        (hist[k].openStoreAt = Elapsed /\ lastOp[k].verb = "GET" /\ lastOp[k].fresh) =>
            resp[k] = Pending

\* C4 amended: when neither an acknowledge nor another store has followed a
\* store, a poll issued more than UNCLAIMED_TTL after it returns pending.
C4_PendingAfterLastStoreWindow ==
    \A k \in Keys :
        (hist[k].lastStoreAt = Elapsed /\ lastOp[k].verb = "GET" /\ lastOp[k].fresh) =>
            resp[k] = Pending

C4_Witness ==
    \E k \in Keys :
        /\ hist[k].lastStoreAt = Elapsed
        /\ lastOp[k].verb = "GET" /\ lastOp[k].fresh
        /\ resp[k] = Pending

\* C5 as stated: when no store came within TOMBSTONE_TTL of an acknowledge, a
\* poll issued after that window returns pending.
C5_PendingAfterTombstoneWindow ==
    \A k \in Keys :
        (hist[k].openAckAt = Elapsed /\ lastOp[k].verb = "GET" /\ lastOp[k].fresh) =>
            resp[k] = Pending

\* C5 amended: when neither a store nor another acknowledge has followed an
\* acknowledge, a poll issued more than TOMBSTONE_TTL after it returns pending.
C5_PendingAfterLastAckWindow ==
    \A k \in Keys :
        (hist[k].lastAckAt = Elapsed /\ lastOp[k].verb = "GET" /\ lastOp[k].fresh) =>
            resp[k] = Pending

C5_Witness ==
    \E k \in Keys :
        /\ hist[k].lastAckAt = Elapsed
        /\ hist[k].everStored
        /\ lastOp[k].verb = "GET" /\ lastOp[k].fresh
        /\ resp[k] = Pending

\* C6: an acknowledge that follows an acknowledge gets the same 200 deleted,
\* and changes nothing of the record but the purge deadline, which it renews.
C6_AcknowledgeIdempotent ==
    [][\A k \in Keys :
        (lastOp[k].verb = "DELETE" /\ Ack(k)) =>
            /\ resp[k] = Deleted
            /\ resp'[k] = resp[k]
            /\ storage'[k] = storage[k]
            /\ scheduled'[k] = now + TOMBSTONE_TTL]_vars

C6_Witness ==
    \E k \in Keys :
        /\ lastOp[k].verb = "DELETE" /\ lastOp[k].prev = "DELETE"
        /\ lastOp[k].fresh /\ hist[k].lastAckAt = now /\ now > 0
        /\ hist[k].tomb = "acked"
        /\ resp[k] = Deleted
        /\ scheduled[k] = now + TOMBSTONE_TTL

\* C7: a poll answers by the record's status alone: 202 pending exactly when
\* absent, 200 ready with the stored result and storedAt exactly when ready,
\* 404 Result deleted exactly when deleted.
C7_PollByStatus ==
    [][\A k \in Keys :
        Poll(k) =>
            /\ (Status(storage[k]) = "absent") <=> (resp'[k] = Pending)
            /\ (Status(storage[k]) = "deleted") <=> (resp'[k] = NotFound)
            /\ (Status(storage[k]) = "ready") <=> (resp'[k].status = 200)
            /\ (Status(storage[k]) = "ready") =>
                /\ IsReady(resp'[k])
                /\ resp'[k].body.json.result = storage[k]["result"]
                /\ resp'[k].body.json.storedAt = storage[k]["storedAt"]]_vars

C7_Witness ==
    \E k \in Keys :
        /\ lastOp[k].verb = "GET" /\ lastOp[k].prev = "ALARM"
        /\ hist[k].everStored
        /\ Status(storage[k]) = "absent"
        /\ resp[k] = Pending

\* C8: a store is answered 201 in every state and leaves the record ready with
\* the payload supplied, storedAt set, and the one alarm UNCLAIMED_TTL ahead.
C8_StoreFromAnyState ==
    [][\A k \in Keys, data \in Payloads :
        Request(k, "PUT", data, "none") =>
            /\ resp'[k] = Stored
            /\ Status(storage'[k]) = "ready"
            /\ DOMAIN storage'[k] = {"status", "result", "storedAt"}
            /\ storage'[k]["result"] = data
            /\ parseISO(storage'[k]["storedAt"]) = now
            /\ scheduled'[k] = now + UNCLAIMED_TTL]_vars

C8_Witness ==
    \E k \in Keys :
        /\ lastOp[k].verb = "PUT" /\ lastOp[k].prev = "DELETE" /\ lastOp[k].fresh
        /\ hist[k].tomb = "restored"
        /\ now > 0
        /\ resp[k] = Stored
        /\ Status(storage[k]) = "ready"
        /\ scheduled[k] = now + UNCLAIMED_TTL

\* C9: an acknowledge of a ready record is answered 200, leaves only the
\* deleted status, and moves the alarm from the store's deadline to
\* TOMBSTONE_TTL ahead.
C9_AcknowledgeReady ==
    [][\A k \in Keys :
        (Status(storage[k]) = "ready" /\ Ack(k)) =>
            /\ resp'[k] = Deleted
            /\ storage'[k] = Tombstone
            /\ scheduled[k] = parseISO(storage[k]["storedAt"]) + UNCLAIMED_TTL
            /\ scheduled'[k] = now + TOMBSTONE_TTL]_vars

C9_Witness ==
    \E k \in Keys :
        /\ lastOp[k].verb = "DELETE" /\ lastOp[k].prev = "PUT" /\ lastOp[k].fresh
        /\ hist[k].tomb = "acked"
        /\ resp[k] = Deleted
        /\ storage[k] = Tombstone
        /\ scheduled[k] = now + TOMBSTONE_TTL

\* C10: an acknowledge of an absent record is answered 200 deleted and leaves a
\* tombstone with the alarm TOMBSTONE_TTL ahead; the poll that follows it
\* returns 404.
C10_AcknowledgeAbsent ==
    [][\A k \in Keys :
        /\ (Status(storage[k]) = "absent" /\ Ack(k)) =>
            /\ resp'[k] = Deleted
            /\ storage'[k] = Tombstone
            /\ scheduled'[k] = now + TOMBSTONE_TTL
        /\ (lastOp[k].verb = "DELETE" /\ hist[k].tomb = "ghost" /\ Poll(k)) =>
            resp'[k] = NotFound]_vars

C10_Witness ==
    \E k \in Keys :
        /\ lastOp[k].verb = "GET" /\ lastOp[k].prev = "DELETE"
        /\ hist[k].tomb = "ghost"
        /\ hist[k].everStored
        /\ resp[k] = NotFound

\* The verbs fetch has no case for.
OtherVerbs == {"POST", "PATCH", "HEAD"}
MethodNotAllowed == [status |-> 405, body |-> [text |-> "Method not allowed"]]
\* The alarm of key k runs in this step.
AlarmFires(k) == now' = now /\ lastOp'[k] # lastOp[k] /\ lastOp'[k].verb = "ALARM"

\* C11: a timer fire wipes every field of the record, leaves no alarm
\* scheduled, and the poll that follows returns pending; an alarm is scheduled
\* only on a record that is not absent, so none fires on an absent record.
C11_AlarmPurges ==
    [][\A k \in Keys :
        /\ AlarmFires(k) =>
            /\ storage'[k] = EmptyStorage
            /\ scheduled'[k] = NoAlarm
            /\ Status(storage[k]) # "absent"
        /\ (lastOp[k].verb = "ALARM" /\ Poll(k)) => resp'[k] = Pending]_vars

C11_Witness ==
    \E k \in Keys :
        /\ lastOp[k].verb = "GET" /\ lastOp[k].prev = "ALARM"
        /\ hist[k].lastAckAt = Elapsed
        /\ storage[k] = EmptyStorage /\ scheduled[k] = NoAlarm
        /\ resp[k] = Pending

\* C12: a poll leaves the stored status, payload and storedAt and the scheduled
\* alarm as they were, in every state.
C12_PollChangesNothing ==
    [][\A k \in Keys :
        Poll(k) => storage'[k] = storage[k] /\ scheduled'[k] = scheduled[k]]_vars

C12_Witness ==
    \E k \in Keys :
        /\ lastOp[k].verb = "GET" /\ lastOp[k].prev = "GET" /\ lastOp[k].fresh
        /\ IsReady(resp[k])
        /\ Status(storage[k]) = "ready"
        /\ storage[k]["result"] = resp[k].body.json.result
        /\ scheduled[k] = parseISO(storage[k]["storedAt"]) + UNCLAIMED_TTL
        /\ now > parseISO(storage[k]["storedAt"])

\* C16: a request with another verb than PUT, GET and DELETE is answered 405
\* Method not allowed and leaves storage and alarm as they were, in every state.
C16_OtherVerbs ==
    [][\A k \in Keys :
        /\ \A m \in OtherVerbs :
              fetch(storage[k], scheduled[k], now, m, "-", "none")
                  = Outcome(storage[k], scheduled[k], MethodNotAllowed)
        /\ Request(k, "POST", "-", "none") =>
            /\ resp'[k] = MethodNotAllowed
            /\ storage'[k] = storage[k]
            /\ scheduled'[k] = scheduled[k]]_vars

C16_Witness ==
    \E k \in Keys :
        /\ lastOp[k].verb = "POST" /\ lastOp[k].prev = "PUT"
        /\ resp[k] = MethodNotAllowed
        /\ Status(storage[k]) = "ready"
        /\ scheduled[k] # NoAlarm

\* C17: in every state the payload is stored and not null exactly when the
\* status is ready, and a deleted record holds neither payload nor storedAt.
C17_PayloadIffReady ==
    \A k \in Keys :
        /\ ("result" \in DOMAIN storage[k] /\ storage[k]["result"] # JsonNull)
               <=> (Status(storage[k]) = "ready")
        /\ Status(storage[k]) = "deleted" => DOMAIN storage[k] = {"status"}

\* C18: the one alarm of a key is the one the latest store (24 h after it) or
\* acknowledge (1 h after it) has set, and the alarm fires at that time only.
LatestDeadline(h) ==
    IF h.lastStoreAt >= 0 THEN h.lastStoreAt + UNCLAIMED_TTL
    ELSE IF h.lastAckAt >= 0 THEN h.lastAckAt + TOMBSTONE_TTL
    ELSE NoAlarm
C18_LastWriteWins ==
    [][\A k \in Keys :
        /\ scheduled'[k] # NoAlarm => scheduled'[k] = LatestDeadline(hist'[k])
        /\ AlarmFires(k) =>
            /\ scheduled[k] = LatestDeadline(hist[k])
            /\ scheduled[k] = now]_vars

C18_Witness ==
    \E k \in Keys :
        /\ lastOp[k].verb = "ALARM" /\ lastOp[k].fresh
        /\ hist[k].openStoreAt = Elapsed
        /\ hist[k].lastStoreAt = now - UNCLAIMED_TTL
        /\ scheduled[k] = NoAlarm

\* The handler of `method` has a call that rejects under `fault`, outside the
\* try of its setAlarm.
Fails(method, fault) ==
    \/ method = "PUT" /\ fault \in {"json", "put"}
    \/ method = "GET" /\ fault = "get"
    \/ method = "DELETE" /\ fault \in {"put", "delete"}
InternalError == [status |-> 500, body |-> [text |-> "Internal error"]]

\* C13 without its last clause: when setAlarm rejects, store still answers 201
\* and leaves the payload ready for the poll that follows, and acknowledge
\* still answers 200 and leaves the record deleted.
C13_AlarmFailureSwallowed ==
    [][\A k \in Keys :
        /\ \A data \in Payloads :
              Request(k, "PUT", data, "setAlarm") =>
                  /\ resp'[k] = Stored
                  /\ Status(storage'[k]) = "ready"
                  /\ storage'[k]["result"] = data
                  /\ scheduled'[k] = scheduled[k]
        /\ (lastOp[k].verb = "PUT" /\ lastOp[k].fault = "setAlarm" /\ Poll(k)) =>
              IsReady(resp'[k]) /\ resp'[k].body.json.result = lastOp[k].data
        /\ Request(k, "DELETE", "-", "setAlarm") =>
              /\ resp'[k] = Deleted
              /\ storage'[k] = Tombstone
              /\ scheduled'[k] = scheduled[k]]_vars

\* C13: a setAlarm that rejects inside store or acknowledge is not surfaced,
\* the caller gets 201 or 200 and the record is ready or deleted, and the
\* failure is logged.
C13_AlarmFailureLogged ==
    \A k \in Keys :
        (lastOp[k].verb \in {"PUT", "DELETE"} /\ lastOp[k].fault = "setAlarm") =>
            /\ resp[k] = IF lastOp[k].verb = "PUT" THEN Stored ELSE Deleted
            /\ lastOp[k].log # {}

\* C14: every failure inside store, poll or acknowledge is answered by fetch
\* with a 500 response; fetch does not reject.
C14_FailuresAnswered500 ==
    \A k \in Keys :
        Fails(lastOp[k].verb, lastOp[k].fault) =>
            resp[k] # Rejected /\ resp[k].status = 500

\* C15: a store or acknowledge that fails at one of its storage steps leaves
\* the stored status, payload and storedAt as they were before it started.
C15_FailureLeavesRecord ==
    [][\A k \in Keys, fault \in Faults :
        /\ (Fails("PUT", fault) /\ \E data \in Payloads : Request(k, "PUT", data, fault))
              => storage'[k] = storage[k]
        /\ (Fails("DELETE", fault) /\ Request(k, "DELETE", "-", fault))
              => storage'[k] = storage[k]]_vars

\* The i-th invocation on k takes a step: its awaited call completes.
Completes(k, i) == calls[k][i].method # "NONE" /\ calls'[k][i] # calls[k][i]
\* What the handler of invocation c leaves behind when run in one piece on
\* the state its first storage call found.
InOnePiece(c) ==
    IF c.method = "ALARM"
    THEN alarm(c.snap.storage, c.snap.scheduled, "none")
    ELSE fetch(c.snap.storage, c.snap.scheduled, c.snap.now, c.method, c.data, "none")

\* C19: on one key no storage step of one operation falls between the
\* storage steps of another: when a storage call of an invocation completes,
\* no other invocation has begun its storage calls; every handler leaves the
\* storage, the alarm and the response it would leave run in one piece; a
\* poll that answers ready carries the result and the storedAt of one store.
C19_NoInterleaving ==
    [][\A k \in Keys, i \in Slots :
        Completes(k, i) =>
            LET c == calls[k][i] IN
            /\ Awaiting(c).on = "storage" =>
                  \A j \in Slots \ {i} : ~calls[k][j].started
            /\ calls'[k][i] = Idle =>
                  /\ storage'[k] = InOnePiece(c).storage
                  /\ scheduled'[k] = InOnePiece(c).scheduled
                  /\ c.method # "ALARM" => resp'[k] = InOnePiece(c).resp
            /\ (calls'[k][i] = Idle /\ c.method = "GET" /\ resp'[k].status = 200) =>
                  /\ IsReady(resp'[k])
                  /\ resp'[k].body.json.result = c.snap.storage["result"]
                  /\ resp'[k].body.json.storedAt = c.snap.storage["storedAt"]]_vars

\* A poll has read the result, and awaits storedAt, while a store is in flight.
C19_Witness ==
    \E k \in Keys :
        /\ calls[k][1].method = "PUT" /\ calls[k][1].pc = 1
        /\ calls[k][2].method = "GET" /\ calls[k][2].pc = 3
        /\ calls[k][2].result = "X"
        /\ Status(storage[k]) = "ready"

\* An operation on the instance of key a: store, poll, acknowledge or alarm.
EventOn(a) ==
    \/ \E data \in Payloads : Request(a, "PUT", data, "none")
    \/ \E method \in {"GET", "DELETE"} : Request(a, method, "-", "none")
    \/ Alarm({a}, NoFault)

\* C20: a store, poll, acknowledge or timer fire on key a
\* leaves the storage, the alarm and the last response of every other key b
\* as they were, whatever has happened on a and b before.
C20_KeysIndependent ==
    [][\A a \in Keys : \A b \in Keys \ {a} :
        EventOn(a) =>
            /\ storage'[b] = storage[b]
            /\ scheduled'[b] = scheduled[b]
            /\ resp'[b] = resp[b]]_vars

\* A store on one key after an acknowledge on the other: one record ready with
\* its 24 h alarm, the other a tombstone whose 1 h alarm is due.
C20_Witness ==
    \E a \in Keys : \E b \in Keys \ {a} :
        /\ lastOp[a].verb = "PUT" /\ lastOp[a].fresh
        /\ Status(storage[a]) = "ready" /\ scheduled[a] = now + UNCLAIMED_TTL
        /\ lastOp[b].verb = "DELETE"
        /\ storage[b] = Tombstone /\ scheduled[b] = now

C28_TimerPendingWhileStored ==
    \A k \in Keys :
        Status(storage[k]) # "absent" =>
            /\ scheduled[k] # NoAlarm
            /\ scheduled[k] <= now + UNCLAIMED_TTL

\* A store on the instance of key k.
Store(k) == \E data \in Payloads : Request(k, "PUT", data, "none")
Payload(s) == [f \in {"result", "storedAt"} \cap DOMAIN s |-> s[f]]

\* C29: a store writes its own payload and time; no other step writes a
\* payload or a storedAt, and an acknowledge or a purge removes them; a poll
\* that answers ready returns the stored result and storedAt, which are those
\* of the latest store.
C29_LastStoreWins ==
    [][\A k \in Keys :
        /\ \A data \in Payloads :
              Payload(store(storage[k], scheduled[k], now, data, "none").storage)
                  = [result |-> data, storedAt |-> toISOString(now)]
        /\ \/ Payload(storage'[k]) = Payload(storage[k])
           \/ Payload(storage'[k]) = EmptyStorage
           \/ Store(k)
        /\ \/ Payload(storage'[k]) = EmptyStorage
           \/ ~(AlarmFires(k) \/ Ack(k))
        /\ (resp'[k].status = 200 /\ IsReady(resp'[k]) /\ Poll(k)) =>
              /\ resp'[k].body.json.result = storage[k]["result"]
              /\ resp'[k].body.json.storedAt = storage[k]["storedAt"]
              /\ parseISO(resp'[k].body.json.storedAt) = hist[k].lastStoreAt]_vars

\* A poll answered ready after the second of two stores made at different
\* hours, with the payload and the time of the second.
C29_Witness ==
    \E k \in Keys :
        /\ lastOp[k].verb = "GET" /\ lastOp[k].prev = "PUT"
        /\ IsReady(resp[k])
        /\ hist[k].openStoreAt >= 0 /\ hist[k].openStoreAt < hist[k].lastStoreAt
        /\ parseISO(resp[k].body.json.storedAt) = hist[k].lastStoreAt
        /\ resp[k].body.json.result = storage[k]["result"]

\* C22: each message the loop has passed is settled exactly once, retried
\* if its processor threw and acked otherwise, a job of unknown type being
\* acked; no message is settled before the loop reaches it; the loop ends
\* only past the last message, whatever failed before.
C22_EachMessageSettledOnce ==
    /\ batch.i \in 1..(Len(batch.messages) + 1)
    /\ \A j \in DOMAIN batch.messages :
          LET job == batch.messages[j] IN
          /\ j < batch.i =>
                batch.settled[j] = IF job.type \in {"email", "report"} /\ job.throws
                                   THEN <<"retry">> ELSE <<"ack">>
          /\ j >= batch.i => batch.settled[j] = << >>

\* A batch of three is done: the first job threw and was retried, the second
\* is of unknown type and was acked, the third was processed and acked.
C22_Witness ==
    /\ Len(batch.messages) = 3 /\ batch.i = 4
    /\ batch.messages[1].throws
    /\ batch.messages[2].type = "sms"
    /\ batch.messages[3].type = "report"
    /\ batch.settled = <<(<<"retry">>), (<<"ack">>), (<<"ack">>)>>

\* The await of the call i of getOrAssignVariant completes.
Resumes(i) == ab.calls[i].pc # "idle" /\ ab'.calls[i] # ab.calls[i]
\* The call i returns or rejects.
Returns(i) == Resumes(i) /\ ab'.calls[i].pc = "idle"
Enabled(a) == {VariantKeys[n] : n \in {m \in DOMAIN VariantKeys : a.enabled[VariantKeys[m]]}}

\* C23: the pair has at most one assignment; once a call has returned a
\* variant, no assignment is created, and every call that found the
\* experiment active and ends after that returns the same variantKey,
\* concurrent calls and changed weights or enabled flags included.
C23_StickyAssignment ==
    [][/\ Len(ab'.assignments) <= 1
       /\ ab.first # Null =>
             /\ ab'.assignments = ab.assignments
             /\ \A i \in ABCalls :
                   (Returns(i) /\ ab.calls[i].pc # "getActiveExperiment") =>
                       ab'.calls[i].result = ab.first]_vars

\* C24: a call that finds the experiment missing or not active, or finds no
\* assignment and then no enabled variant, returns null and creates no
\* assignment; a call that creates an assignment names a variant that was
\* enabled when the call read the enabled variants, and returns it; no other
\* step creates an assignment.
C24_NullOrEnabledVariant ==
    [][/\ \A i \in ABCalls :
             LET c == ab.calls[i] IN
             Resumes(i) =>
                 /\ (c.pc = "getActiveExperiment" /\ ab.status # "active") =>
                       /\ Returns(i) /\ ab'.calls[i].result = Null
                       /\ ab'.assignments = ab.assignments
                 /\ (c.pc = "getEnabledVariants" /\ Enabled(ab) = {}) =>
                       /\ Returns(i) /\ ab'.calls[i].result = Null
                       /\ ab'.assignments = ab.assignments
                 /\ (c.pc = "getEnabledVariants" /\ Enabled(ab) # {}) =>
                       /\ ~Returns(i)
                       /\ ab'.calls[i].selected \in Enabled(ab)
                       /\ ab'.assignments = ab.assignments
                 /\ ab'.assignments # ab.assignments =>
                       /\ c.pc = "createAssignment"
                       /\ ab'.assignments = <<c.selected>>
                       /\ Returns(i) /\ ab'.calls[i].result = c.selected
       /\ ab'.assignments # ab.assignments => \E i \in ABCalls : Resumes(i)]_vars

\* A call has assigned "treatment", the only variant enabled when it read
\* the variants, and returned it.
C24_Witness ==
    /\ ab # << >>
    /\ ab.assignments = <<"treatment">>
    /\ \E i \in ABCalls :
          /\ ab.calls[i].pc = "idle"
          /\ ab.calls[i].variants = <<"treatment">>
          /\ ab.calls[i].result = "treatment"

\* C25: a request answered 429 has not reached the downstream handler, any
\* other finished request has reached it exactly once, and none reaches it
\* twice; a request whose count or insert failed is passed downstream, and
\* ends in an error only when the downstream handler itself threw.
C25_PassOr429 ==
    limiter # << >> =>
        \A n \in Requests :
            LET r == limiter.requests[n] IN
            /\ r.invoked <= 1
            /\ r.out = "429" => r.invoked = 0 /\ ~r.storeFailed
            /\ r.out \in {"passed", "error"} => r.invoked = 1
            /\ r.out = "error" => r.nextThrew
            /\ (r.storeFailed /\ r.pc = "idle") => r.out \in {"passed", "error"}

\* A request whose count or insert failed has been passed downstream, unrecorded.
C25_Witness ==
    /\ limiter # << >>
    /\ \E n \in Requests :
          LET r == limiter.requests[n] IN
          /\ r.pc = "idle" /\ r.storeFailed /\ r.out = "passed"
          /\ r.invoked = 1 /\ limiter.rows[r.now] = 0

\* C30: with the store working, the rows of the key, one per request passed
\* downstream, never number more than limit within a window of windowSeconds
\* seconds, overlapping requests included; a request answered 429 adds no row.
C30_AtMostLimitPerWindow ==
    limiter # << >> =>
        \A s \in 0..MaxClock :
            Count([u \in DOMAIN limiter.rows |->
                      IF u < s + windowSeconds THEN limiter.rows[u] ELSE 0], s) <= limit

\* C26: a request passed downstream by checkSubscriptionStatus carries a user
\* that is not on a paid tier with an expiry date before the time of passing;
\* when the middleware downgraded, the stored user and the in-request user are
\* both on tier free with no expiry; a user whose subscription had not expired
\* is passed as loaded, with no write to the store.
C26_NoExpiredPaidUserDownstream ==
    sub # << >> =>
        LET r == sub.request IN
        r.out = "passed" =>
            /\ ~(/\ r.user.subscriptionTier # "free"
                 /\ ExpiredAt(r.user.subscriptionExpiresAt, r.at))
            /\ r.wrote => sub.stored = FreeUser /\ r.user = FreeUser
            /\ r.wrote =>
                   /\ r.entry.subscriptionTier # "free"
                   /\ ExpiredAt(r.entry.subscriptionExpiresAt, r.at)
            /\ ~r.wrote => r.user = r.entry

\* An expired paid user has been downgraded and passed downstream.
C26_Witness ==
    /\ sub # << >>
    /\ sub.request.out = "passed" /\ sub.request.wrote
    /\ sub.request.entry.subscriptionTier = "pro"
    /\ sub.request.user = FreeUser /\ sub.stored = FreeUser

\* The call of the posts service made by this step.
PostsCall == posts'.last

\* C27: a getById, update or delete for a post id that has no row, or whose
\* row belongs to another author, raises PostNotFoundError and leaves every
\* post as it was; the call succeeds only for a post of that author, and then
\* touches no other post.
C27_OwnedPostsOnly ==
    [][(posts # << >> /\ PostsCall.op \in {"getById", "update", "delete"}) =>
          LET owned == Matches(posts.table, PostsCall.id, PostsCall.authorId) IN
          /\ ~owned => PostsCall.result = PostNotFoundError /\ posts'.table = posts.table
          /\ PostsCall.result = "ok" => owned
          /\ \A id \in PostIds \ {PostsCall.id} : posts'.table[id] = posts.table[id]
          /\ PostsCall.op = "getById" => posts'.table = posts.table]_vars

\* An update by an author who does not own the post was refused while the
\* post exists.
C27_Witness ==
    /\ posts # << >>
    /\ posts.last.op = "update" /\ posts.last.result = PostNotFoundError
    /\ posts.table[posts.last.id] # NoPost
    /\ posts.table[posts.last.id].authorId # posts.last.authorId
    /\ posts.table[posts.last.id].title = "Hello"

====
